---- MODULE Spec2Model ----
(***************************************************************************)
(* RepoRefine: the getRepoContent tool (src/ai/flows/get-repo-content.ts,  *)
(* duplicated in src/ai/flows/generate-readme.ts), the server action       *)
(* handleGenerateReadme (app/actions) and the page component's handlers    *)
(* (src/app/page.tsx).                                                     *)
(*                                                                         *)
(* An async function is modelled as one action per segment between two     *)
(* awaits: the action that consumes a response runs the code up to the     *)
(* next fetch (or to the return).  The remote API is the environment: each *)
(* response is drawn from the outcomes fetch()/json() can produce.         *)
(*                                                                         *)
(* A path is a sequence of tokens ("src", "/", "logo", ".", "PNG"); an     *)
(* optional JavaScript value is a sequence of length 0 (undefined) or 1.   *)
(***************************************************************************)
EXTENDS Integers, Sequences, FiniteSets, TLC

VARIABLES
    pc,            \* position of the getRepoContent invocation
    userName,      \* input.userName
    repoName,      \* input.repoName
    defaultBranch, \* repoData.default_branch (optional)
    treeSha,       \* branchData.commit.commit.tree.sha (optional)
    treeData,      \* treeData.tree of the tree response
    fileTree,      \* the local fileTree
    calls,         \* the fetch() calls issued by this invocation, in order
    resps,         \* the outcome class of each response, in order
    pkgBody,       \* packageJsonData.content of the content response (optional)
    caught,        \* the catch block ran
    settled,       \* "pending", "fulfilled" or "rejected": the returned promise
    result,        \* the value the promise is fulfilled with (optional)
    prev,          \* history: the previous invocation, when it had the same input
                   \* and the remote has not changed since it began (optional)
    remoteChanged, \* history: the remote changed since this invocation began
    \* ---- page.tsx / actions.ts ----
    username,         \* useState: username
    repos,            \* useState: repos (sequence of Repo)
    selectedRepoName, \* useState: selectedRepoName
    readme,           \* useState: readme
    error,            \* useState: error (optional string)
    fetchInFlight,    \* the username each pending fetchRepos request was made for
    genInFlight,      \* the pending handleGenerateReadme calls (their inputs)
    lastAction,       \* the outcome of the last handleGenerateReadme call (optional)
    reposOwner        \* history: the username whose fetch produced repos (optional)

toolVars == <<pc, userName, repoName, defaultBranch, treeSha, treeData, fileTree,
              calls, resps, pkgBody, caught, settled, result, prev, remoteChanged>>
pageVars == <<username, repos, selectedRepoName, readme, error, fetchInFlight,
              genInFlight, lastAction, reposOwner>>
vars == <<toolVars, pageVars>>

----------------------------------------------------------------------------
(* Bounds *)

MaxTree == 2         \* nodes in a tree response
MaxContentLen == 2   \* characters of an encoded content body

----------------------------------------------------------------------------
(* Values *)

Undefined == <<>>
Some(x) == <<x>>
IsDefined(o) == o # <<>>

\* `${x}` of an optional string
Interp(o) == IF IsDefined(o) THEN o[1] ELSE "undefined"

Users == {"octo"}
RepoNames == {"app", "lib"}
Branches == {"main"}
Shas == {"t1"}

PackageJson == <<"package", ".", "json">>

\* tree paths the remote may list
Paths ==
    { PackageJson,
      <<"src", "/", "package", ".", "json">>,
      <<"package", ".", "json", ".", "PNG">>,
      <<"docs">> }

\* a node of the git tree listing: a blob (file) and a tree (directory) carry a
\* url, a commit (submodule) carries none
NodeKinds ==
    { [type |-> "blob", url |-> Some("u")],
      [type |-> "tree", url |-> Some("u")],
      [type |-> "commit", url |-> Undefined] }

Nodes == {[path |-> p, type |-> k.type, url |-> k.url] : p \in Paths, k \in NodeKinds}

RECURSIVE SeqsUpTo(_, _)
SeqsUpTo(S, n) ==
    IF n = 0 THEN {<<>>}
    ELSE LET shorter == SeqsUpTo(S, n - 1)
         IN  shorter \cup {Append(s, x) : s \in {t \in shorter : Len(t) = n - 1}, x \in S}

Trees == SeqsUpTo(Nodes, MaxTree)

\* characters of an encoded body: two base64 digits and the line break GitHub
\* inserts
ContentChars == {"e", "o", "\n"}
Contents == SeqsUpTo(ContentChars, MaxContentLen)

----------------------------------------------------------------------------
(* Pure functions of getRepoContent *)

\* the /i flag: case folding of the tokens that occur
ToLower(tok) ==
    CASE tok = "PNG" -> "png"
      [] tok = "SVG" -> "svg"
      [] OTHER -> tok

BinaryExtensions ==
    {"jpg", "jpeg", "png", "gif", "bmp", "ico", "svg", "webp", "pdf", "zip",
     "gz", "rar", "woff", "woff2", "eot", "ttf", "otf"}

\* path.match(/\.(jpg|...|otf)$/i): the path ends with a dot and a listed
\* extension
IsBinaryPath(path) ==
    /\ Len(path) >= 2
    /\ path[Len(path) - 1] = "."
    /\ ToLower(path[Len(path)]) \in BinaryExtensions

KeepPath(path) == ~IsBinaryPath(path)

\* treeData.tree.map(node => node.path)
RECURSIVE MapPath(_)
MapPath(nodes) ==
    IF nodes = <<>> THEN <<>>
    ELSE <<nodes[1].path>> \o MapPath(Tail(nodes))

\* variant: the kept paths are collected in reverse (unshift for push)
RECURSIVE FilterPathsReversed(_)
FilterPathsReversed(paths) ==
    IF paths = <<>> THEN <<>>
    ELSE IF KeepPath(paths[1]) THEN FilterPathsReversed(Tail(paths)) \o <<paths[1]>>
         ELSE FilterPathsReversed(Tail(paths))

\* .filter(path => !path.match(...)), in the order of the input
RECURSIVE FilterPaths(_)
FilterPaths(paths) ==
    IF paths = <<>> THEN <<>>
    ELSE IF KeepPath(paths[1]) THEN <<paths[1]>> \o FilterPaths(Tail(paths))
         ELSE FilterPaths(Tail(paths))

\* variant: fileTree is a module-level array that is not emptied between
\* invocations
FileTreeOfAccumulating(nodes) ==
    (IF IsDefined(prev) THEN prev[1].result[1].tree ELSE <<>>)
        \o FilterPaths(MapPath(nodes))

\* variant: only the paths of blob nodes are kept
RECURSIVE BlobPaths(_)
BlobPaths(nodes) ==
    IF nodes = <<>> THEN <<>>
    ELSE IF nodes[1].type = "blob" THEN <<nodes[1].path>> \o BlobPaths(Tail(nodes))
         ELSE BlobPaths(Tail(nodes))
FileTreeOfBlobsOnly(nodes) == FilterPaths(BlobPaths(nodes))

FileTreeOf(nodes) == FilterPaths(MapPath(nodes))

\* variant: path.endsWith('package.json') for ===
IsPackageJsonPathSuffix(path) ==
    /\ Len(path) >= 3
    /\ SubSeq(path, Len(path) - 2, Len(path)) = PackageJson

\* node.path === 'package.json'
IsPackageJsonPath(path) == path = PackageJson

\* treeData.tree.find(node => node.path === 'package.json'): the first match,
\* or undefined
RECURSIVE FindPackageJsonNode(_)
FindPackageJsonNode(nodes) ==
    IF nodes = <<>> THEN Undefined
    ELSE IF IsPackageJsonPath(nodes[1].path) THEN Some(nodes[1])
         ELSE FindPackageJsonNode(Tail(nodes))

\* if (packageJsonNode && packageJsonNode.url)
ShouldFetchPackageJson(found) == IsDefined(found) /\ IsDefined(found[1].url)

\* if (packageJsonData.content): a string is truthy iff it is not empty
ContentTruthy(c) == IsDefined(c) /\ c[1] # <<>>

\* the value of a base64 digit
IsB64Digit(c) == c \in {"e", "o", "w"}
B64Val(c) ==
    CASE c = "e" -> 30
      [] c = "o" -> 40
      [] c = "w" -> 48

RECURSIVE B64Vals(_)
B64Vals(s) ==
    IF s = <<>> THEN <<>>
    ELSE IF IsB64Digit(s[1]) THEN <<B64Val(s[1])>> \o B64Vals(Tail(s))
         ELSE B64Vals(Tail(s))

\* four digits give three bytes; a last group of 3 gives 2, of 2 gives 1, of 1
\* gives none
RECURSIVE B64Bytes(_)
B64Bytes(v) ==
    IF Len(v) < 2 THEN <<>>
    ELSE LET b1 == v[1] * 4 + (v[2] \div 16)
         IN  IF Len(v) = 2 THEN <<b1>>
             ELSE LET b2 == (v[2] % 16) * 16 + (v[3] \div 4)
                  IN  IF Len(v) = 3 THEN <<b1, b2>>
                      ELSE <<b1, b2, (v[3] % 4) * 64 + v[4]>>
                               \o B64Bytes(SubSeq(v, 5, Len(v)))

\* Buffer.from(encoded, 'base64'): characters that are no base64 digits (line
\* breaks) are skipped
BufferFromBase64(encoded) == B64Bytes(B64Vals(encoded))

\* buffer.toString('utf-8'): the code points of the bytes, U+FFFD (65533) for
\* every maximal ill-formed part.  need/seen/cp/lo/hi are the decoder's state.
RECURSIVE Utf8Decode(_, _, _, _, _, _, _)
Utf8Decode(bytes, i, need, seen, cp, lo, hi) ==
    IF i > Len(bytes) THEN (IF need # 0 THEN <<65533>> ELSE <<>>)
    ELSE LET b == bytes[i] IN
         IF need = 0 THEN
            IF b <= 127 THEN <<b>> \o Utf8Decode(bytes, i + 1, 0, 0, 0, 128, 191)
            ELSE IF b \in 194..223 THEN Utf8Decode(bytes, i + 1, 1, 0, b % 32, 128, 191)
            ELSE IF b \in 224..239 THEN
                Utf8Decode(bytes, i + 1, 2, 0, b % 16,
                           IF b = 224 THEN 160 ELSE 128, IF b = 237 THEN 159 ELSE 191)
            ELSE IF b \in 240..244 THEN
                Utf8Decode(bytes, i + 1, 3, 0, b % 8,
                           IF b = 240 THEN 144 ELSE 128, IF b = 244 THEN 143 ELSE 191)
            ELSE <<65533>> \o Utf8Decode(bytes, i + 1, 0, 0, 0, 128, 191)
         ELSE IF b \notin lo..hi THEN
            <<65533>> \o Utf8Decode(bytes, i, 0, 0, 0, 128, 191)
         ELSE IF seen + 1 = need THEN
            <<cp * 64 + (b % 64)>> \o Utf8Decode(bytes, i + 1, 0, 0, 0, 128, 191)
         ELSE Utf8Decode(bytes, i + 1, need, seen + 1, cp * 64 + (b % 64), 128, 191)

BufferToStringUtf8(bytes) == Utf8Decode(bytes, 1, 0, 0, 0, 128, 191)

decodeBase64(encoded) == BufferToStringUtf8(BufferFromBase64(encoded))

\* the value of the catch block
ErrorPath == <<"Error fetching repository structure.">>
ErrorResult == [tree |-> <<ErrorPath>>, packageJson |-> Undefined]

----------------------------------------------------------------------------
(* getRepoContent: the outcomes of a response and whether the code throws *)

\* "reject": fetch() rejects; "notok": !res.ok; "badjson": res.json() rejects;
\* "nullbody": the body is JSON null; "nofield": default_branch is missing
RepoKinds == {"reject", "notok", "badjson", "nullbody", "nofield", "ok"}
\* "nochain": commit.commit.tree is missing; "nosha": only its sha is missing
BranchKinds == {"reject", "notok", "badjson", "nochain", "nosha", "ok"}
\* "notree": the body has no tree array
TreeKinds == {"reject", "notok", "badjson", "notree", "ok"}
\* "nocontent": the body has no content field
ContentKinds == {"reject", "notok", "badjson", "nullbody", "nocontent", "ok"}

\* variant: the !repoRes.ok test is missing
RepoThrowsIgnoresStatus(kind) == kind \in {"reject", "badjson", "nullbody"}

\* lines 40-43: the fetch, the !repoRes.ok throw, json(), repoData.default_branch
RepoThrows(kind) == kind \in {"reject", "notok", "badjson", "nullbody"}
\* variant: the !branchRes.ok test is missing
BranchThrowsIgnoresStatus(kind) == kind \in {"reject", "badjson", "nochain"}

\* lines 46-49
BranchThrows(kind) == kind \in {"reject", "notok", "badjson", "nochain"}
\* lines 52-59
TreeThrows(kind) == kind \in {"reject", "notok", "badjson", "notree"}
\* lines 66-69: a response that is not ok does not throw
ContentThrows(kind) == kind \in {"reject", "badjson", "nullbody"}

\* lines 67-71: the value of packageJsonContent after a content response
\* that did not throw
PackageJsonContentOf(kind, body) ==
    IF kind = "ok" /\ ContentTruthy(body) THEN Some(decodeBase64(body[1]))
    ELSE Undefined

Call(ep, url) == [ep |-> ep, url |-> url]

Init ==
    /\ pc = "idle"
    /\ userName = "" /\ repoName = ""
    /\ defaultBranch = Undefined /\ treeSha = Undefined
    /\ treeData = <<>> /\ fileTree = <<>>
    /\ calls = <<>> /\ resps = <<>>
    /\ pkgBody = Undefined
    /\ caught = FALSE
    /\ settled = "pending"
    /\ result = Undefined
    /\ username = ""
    /\ repos = <<>>
    /\ selectedRepoName = ""
    /\ readme = ""
    /\ error = Undefined
    /\ fetchInFlight = {}
    /\ genInFlight = {}
    /\ lastAction = Undefined
    /\ reposOwner = Undefined
    /\ prev = Undefined
    /\ remoteChanged = FALSE

\* variant: the catch block returns the tree resolved so far
CatchKeepsTree ==
    /\ caught' = TRUE
    /\ settled' = "fulfilled"
    /\ result' = Some([tree |-> fileTree, packageJson |-> Undefined])
    /\ pc' = "done"

\* variant: the catch block rethrows
CatchRethrows ==
    /\ caught' = TRUE
    /\ settled' = "rejected"
    /\ result' = Undefined
    /\ pc' = "done"

\* lines 79-85: the catch block; the promise is fulfilled with ErrorResult
Catch ==
    /\ caught' = TRUE
    /\ settled' = "fulfilled"
    /\ result' = Some(ErrorResult)
    /\ pc' = "done"

\* lines 75-78: the return of the try block
Return(tree, packageJson) ==
    /\ caught' = FALSE
    /\ settled' = "fulfilled"
    /\ result' = Some([tree |-> tree, packageJson |-> packageJson])
    /\ pc' = "done"

\* the tool is called with { userName, repoName }; line 40 issues the first
\* fetch.  Every invocation starts from fresh locals.
Invoke(u, r) ==
    /\ pc \in {"idle", "done"}
    /\ pc' = "repo"
    /\ userName' = u /\ repoName' = r
    /\ defaultBranch' = Undefined /\ treeSha' = Undefined
    /\ treeData' = <<>> /\ fileTree' = <<>>
    /\ calls' = <<Call("repo", <<u, r>>)>>
    /\ resps' = <<>>
    /\ pkgBody' = Undefined
    /\ caught' = FALSE
    /\ settled' = "pending"
    /\ result' = Undefined
    /\ UNCHANGED pageVars

\* lines 40-46
RepoResponds(kind, b) ==
    /\ pc = "repo"
    /\ resps' = Append(resps, kind)
    /\ IF RepoThrows(kind)
       THEN /\ Catch
            /\ UNCHANGED <<defaultBranch, calls>>
       ELSE /\ defaultBranch' = (IF kind = "ok" THEN Some(b) ELSE Undefined)
            /\ calls' = Append(calls,
                   Call("branch", <<userName, repoName, Interp(defaultBranch')>>))
            /\ pc' = "branch"
            /\ UNCHANGED <<caught, settled, result>>
    /\ UNCHANGED <<userName, repoName, treeSha, treeData, fileTree, pkgBody>>
    /\ UNCHANGED pageVars

\* lines 46-52
BranchResponds(kind, sha) ==
    /\ pc = "branch"
    /\ resps' = Append(resps, kind)
    /\ IF BranchThrows(kind)
       THEN /\ Catch
            /\ UNCHANGED <<treeSha, calls>>
       ELSE /\ treeSha' = (IF kind = "ok" THEN Some(sha) ELSE Undefined)
            /\ calls' = Append(calls,
                   Call("tree", <<userName, repoName, Interp(treeSha')>>))
            /\ pc' = "tree"
            /\ UNCHANGED <<caught, settled, result>>
    /\ UNCHANGED <<userName, repoName, defaultBranch, treeData, fileTree, pkgBody>>
    /\ UNCHANGED pageVars

\* lines 52-66, and 75-78 when no content fetch is made
TreeResponds(kind, nodes) ==
    /\ pc = "tree"
    /\ resps' = Append(resps, kind)
    /\ IF TreeThrows(kind)
       THEN /\ Catch
            /\ UNCHANGED <<treeData, fileTree, calls>>
       ELSE /\ treeData' = nodes
            /\ fileTree' = FileTreeOf(nodes)
            /\ LET packageJsonNode == FindPackageJsonNode(nodes)
               IN  IF ShouldFetchPackageJson(packageJsonNode)
                   THEN /\ calls' = Append(calls,
                               Call("content", <<packageJsonNode[1].url[1]>>))
                        /\ pc' = "content"
                        /\ UNCHANGED <<caught, settled, result>>
                   ELSE /\ Return(fileTree', Undefined)
                        /\ UNCHANGED calls
    /\ UNCHANGED <<userName, repoName, defaultBranch, treeSha, pkgBody>>
    /\ UNCHANGED pageVars

\* lines 66-78
ContentResponds(kind, body) ==
    /\ pc = "content"
    /\ resps' = Append(resps, kind)
    /\ pkgBody' = (IF kind = "ok" THEN body ELSE Undefined)
    /\ IF ContentThrows(kind)
       THEN Catch
       ELSE Return(fileTree, PackageJsonContentOf(kind, body))
    /\ UNCHANGED <<userName, repoName, defaultBranch, treeSha, treeData, fileTree, calls>>
    /\ UNCHANGED pageVars

InvokeStep ==
    \E u \in Users, r \in RepoNames : Invoke(u, r) /\ UNCHANGED <<prev, remoteChanged>>
RepoStep ==
    \E kind \in RepoKinds :
        \E b \in (IF kind = "ok" THEN Branches ELSE {"main"}) :
            RepoResponds(kind, b) /\ UNCHANGED <<prev, remoteChanged>>
BranchStep ==
    \E kind \in BranchKinds :
        \E sha \in (IF kind = "ok" THEN Shas ELSE {"t1"}) :
            BranchResponds(kind, sha) /\ UNCHANGED <<prev, remoteChanged>>
TreeStep ==
    \E kind \in TreeKinds :
        \E nodes \in (IF kind = "ok" THEN Trees ELSE {<<>>}) :
            TreeResponds(kind, nodes) /\ UNCHANGED <<prev, remoteChanged>>
ContentStep ==
    \E kind \in ContentKinds :
        \E body \in (IF kind = "ok" THEN {Some(c) : c \in Contents} ELSE {Undefined}) :
            ContentResponds(kind, body) /\ UNCHANGED <<prev, remoteChanged>>

----------------------------------------------------------------------------
(* Repeated invocations against a remote that answers consistently *)

\* the nodes of the repositories that are invoked repeatedly: the manifest, a
\* file the filter drops and a directory
IdemNodes ==
    { [path |-> PackageJson, type |-> "blob", url |-> Some("u")],
      [path |-> <<"package", ".", "json", ".", "PNG">>, type |-> "blob", url |-> Some("u")],
      [path |-> <<"docs">>, type |-> "tree", url |-> Some("u")] }

IdemTrees == SeqsUpTo(IdemNodes, MaxTree)

\* what an invocation saw and returned
RunRecord ==
    [userName |-> userName, repoName |-> repoName, resps |-> resps,
     defaultBranch |-> defaultBranch, treeSha |-> treeSha, treeData |-> treeData,
     pkgBody |-> pkgBody, result |-> result]

\* response k of this invocation is answered by the unchanged remote that
\* answered the previous invocation
Replayed(k) == IsDefined(prev) /\ k <= Len(prev[1].resps)

\* a new invocation (line 37); the previous one is remembered when it had the
\* same input and the remote did not change while it ran
IdemInvokeStep ==
    \E u \in Users, r \in RepoNames :
        /\ Invoke(u, r)
        /\ prev' = IF pc = "done" /\ ~remoteChanged /\ u = userName /\ r = repoName
                   THEN Some(RunRecord)
                   ELSE Undefined
        /\ remoteChanged' = FALSE

\* the repository behind the API changes (a push, a rename, an outage)
RemoteChanges ==
    /\ pc # "idle"
    /\ ~remoteChanged
    /\ remoteChanged' = TRUE
    /\ prev' = Undefined
    /\ UNCHANGED <<pc, userName, repoName, defaultBranch, treeSha, treeData, fileTree,
                   calls, resps, pkgBody, caught, settled, result>>
    /\ UNCHANGED pageVars

IdemRepoStep ==
    \E kind \in RepoKinds :
        \E b \in (IF kind = "ok" THEN Branches ELSE {"main"}) :
            /\ Replayed(1) => /\ kind = prev[1].resps[1]
                              /\ kind = "ok" => Some(b) = prev[1].defaultBranch
            /\ RepoResponds(kind, b)
            /\ UNCHANGED <<prev, remoteChanged>>
IdemBranchStep ==
    \E kind \in BranchKinds :
        \E sha \in (IF kind = "ok" THEN Shas ELSE {"t1"}) :
            /\ Replayed(2) => /\ kind = prev[1].resps[2]
                              /\ kind = "ok" => Some(sha) = prev[1].treeSha
            /\ BranchResponds(kind, sha)
            /\ UNCHANGED <<prev, remoteChanged>>
IdemTreeStep ==
    \E kind \in TreeKinds :
        \E nodes \in (IF kind = "ok" THEN IdemTrees ELSE {<<>>}) :
            /\ Replayed(3) => /\ kind = prev[1].resps[3]
                              /\ kind = "ok" => nodes = prev[1].treeData
            /\ TreeResponds(kind, nodes)
            /\ UNCHANGED <<prev, remoteChanged>>
IdemContentStep ==
    \E kind \in ContentKinds :
        \E body \in (IF kind = "ok" THEN {Some(c) : c \in Contents} ELSE {Undefined}) :
            /\ Replayed(4) => /\ kind = prev[1].resps[4]
                              /\ kind = "ok" => body = prev[1].pkgBody
            /\ ContentResponds(kind, body)
            /\ UNCHANGED <<prev, remoteChanged>>

NextIdem ==
    \/ IdemInvokeStep
    \/ RemoteChanges
    \/ IdemRepoStep
    \/ IdemBranchStep
    \/ IdemTreeStep
    \/ IdemContentStep

SpecIdem == Init /\ [][NextIdem]_vars

----------------------------------------------------------------------------
(* app/actions: handleGenerateReadme, and the handlers of page.tsx *)

MaxInFlight == 1     \* pending requests of one kind

Usernames == {"", "octo", "kit"}
ReadmeTexts == {"", "# app"}
ErrorMessages == {"", "quota exceeded"}

UnknownErrorMessage == "An unknown error occurred during README generation."
GenerateFallbackMessage == "Failed to generate README."
DefaultPrompt == "Create a professional and comprehensive README file"

\* what `await generateReadme(input)` can do: return the flow's output, throw
\* an Error with some message, or throw a value that is no Error
FlowOutcomes ==
    {[kind |-> "return", text |-> t] : t \in ReadmeTexts}
        \cup {[kind |-> "throwError", text |-> m] : m \in ErrorMessages}
        \cup {[kind |-> "throwOther", text |-> ""]}

\* line 12: error instanceof Error ? error.message : '...'
ErrorMessageOf(outcome) ==
    IF outcome.kind = "throwError" THEN outcome.text ELSE UnknownErrorMessage

\* handleGenerateReadme, lines 6-15: the value it returns for an outcome of
\* generateReadme
HandleGenerateReadme(outcome) ==
    IF outcome.kind = "return"
    THEN [success |-> TRUE,
          data |-> Some([readmeContent |-> outcome.text]),
          error |-> Undefined]
    ELSE [success |-> FALSE,
          data |-> Undefined,
          error |-> Some(ErrorMessageOf(outcome))]

\* page.tsx line 83: result.success && result.data
ResultIsSuccess(res) == res.success /\ IsDefined(res.data)

\* variant: the || fallback is missing
ShownErrorNoFallback(res) == IF IsDefined(res.error) THEN res.error[1] ELSE ""

\* page.tsx line 86: result.error || "Failed to generate README."
ShownError(res) ==
    IF IsDefined(res.error) /\ res.error[1] # "" THEN res.error[1]
    ELSE GenerateFallbackMessage

\* the repository lists the remote may return for a user
RepoLists(u) ==
    IF u = "octo"
    THEN { <<[name |-> "app", description |-> Some("an app")],
             [name |-> "lib", description |-> Undefined]>> }
    ELSE { <<[name |-> "kit", description |-> Some("")]>> }

RepoNamesOf(list) == {list[i].name : i \in 1..Len(list)}

\* repos.find(repo => repo.name === selectedRepoName)
RECURSIVE FindRepo(_, _)
FindRepo(list, name) ==
    IF list = <<>> THEN Undefined
    ELSE IF list[1].name = name THEN Some(list[1])
         ELSE FindRepo(Tail(list), name)

\* selectedRepo.description || "No description provided."
DescriptionOf(repo) ==
    IF IsDefined(repo.description) /\ repo.description[1] # ""
    THEN repo.description[1]
    ELSE "No description provided."

\* line 125: onChange of the username input
SetUsername(u) ==
    /\ u # username
    /\ username' = u
    /\ UNCHANGED <<repos, selectedRepoName, readme, error, fetchInFlight,
                   genInFlight, lastAction, reposOwner>>
    /\ UNCHANGED toolVars

\* lines 32-44: fetchRepos up to the fetch of the transition callback
FetchRepos ==
    /\ Cardinality(fetchInFlight) < MaxInFlight
    /\ IF username = ""
       THEN /\ error' = Some("Please enter a GitHub username.")
            /\ UNCHANGED <<repos, selectedRepoName, readme, fetchInFlight, reposOwner>>
       ELSE /\ error' = Undefined
            /\ repos' = <<>> /\ reposOwner' = Undefined
            /\ selectedRepoName' = ""
            /\ readme' = ""
            /\ fetchInFlight' = fetchInFlight \cup {username}
    /\ UNCHANGED <<username, genInFlight, lastAction>>
    /\ UNCHANGED toolVars

\* lines 44-57: the rest of the transition callback, for the request made
\* for user u
FetchReposResponds(u, kind, list) ==
    /\ u \in fetchInFlight
    /\ fetchInFlight' = fetchInFlight \ {u}
    /\ CASE kind = "reject" ->
              /\ error' = Some("Failed to fetch")
              /\ repos' = <<>> /\ reposOwner' = Undefined
         [] kind = "notok" ->
              /\ error' = Some("Failed to fetch repositories. GitHub API returned 404.")
              /\ repos' = <<>> /\ reposOwner' = Undefined
         [] kind = "empty" ->
              /\ error' = Some("No public repositories found for this user.")
              /\ UNCHANGED <<repos, reposOwner>>
         [] kind = "ok" ->
              repos' = list /\ reposOwner' = Some(u) /\ UNCHANGED error
    /\ UNCHANGED <<username, selectedRepoName, readme, genInFlight, lastAction>>
    /\ UNCHANGED toolVars

\* lines 136-149: the Select offers the names of repos
SelectRepo(name) ==
    /\ name \in RepoNamesOf(repos)
    /\ name # selectedRepoName
    /\ selectedRepoName' = name
    /\ UNCHANGED <<username, repos, readme, error, fetchInFlight, genInFlight,
                   lastAction, reposOwner>>
    /\ UNCHANGED toolVars

\* lines 61-81: generateReadmeAction up to the call of handleGenerateReadme
GenerateReadmeAction ==
    /\ Cardinality(genInFlight) < MaxInFlight
    /\ IF selectedRepoName = ""
       THEN /\ error' = Some("Please select a repository.")
            /\ UNCHANGED <<readme, genInFlight>>
       ELSE LET selectedRepo == FindRepo(repos, selectedRepoName)
            IN  /\ readme' = ""
                /\ IF ~IsDefined(selectedRepo)
                   THEN /\ error' = Some("Selected repository not found.")
                        /\ UNCHANGED genInFlight
                   ELSE /\ error' = Undefined
                        /\ genInFlight' = genInFlight \cup
                              {[repoName |-> selectedRepo[1].name,
                                repoDescription |-> DescriptionOf(selectedRepo[1]),
                                userName |-> username,
                                prompt |-> DefaultPrompt]}
    /\ UNCHANGED <<username, repos, selectedRepoName, fetchInFlight, lastAction,
                   reposOwner>>
    /\ UNCHANGED toolVars

\* handleGenerateReadme runs for a pending call and the page handles its
\* result, lines 83-88
GenerateReturns(input, outcome) ==
    /\ input \in genInFlight
    /\ genInFlight' = genInFlight \ {input}
    /\ LET res == HandleGenerateReadme(outcome)
       IN  /\ lastAction' = Some([input |-> input, outcome |-> outcome, result |-> res])
           /\ IF ResultIsSuccess(res)
              THEN /\ readme' = res.data[1].readmeContent
                   /\ UNCHANGED error
              ELSE /\ error' = Some(ShownError(res))
                   /\ readme' = ""
    /\ UNCHANGED <<username, repos, selectedRepoName, fetchInFlight, reposOwner>>
    /\ UNCHANGED toolVars

SetUsernameStep == \E u \in Usernames : SetUsername(u)
FetchReposRespondsStep ==
    \E u \in fetchInFlight, kind \in {"reject", "notok", "empty", "ok"} :
        \E list \in (IF kind = "ok" THEN RepoLists(u) ELSE {<<>>}) :
            FetchReposResponds(u, kind, list)
SelectRepoStep == \E name \in RepoNamesOf(repos) : SelectRepo(name)
GenerateReturnsStep ==
    \E input \in genInFlight, outcome \in FlowOutcomes : GenerateReturns(input, outcome)

NextPage ==
    \/ SetUsernameStep
    \/ FetchRepos
    \/ FetchReposRespondsStep
    \/ SelectRepoStep
    \/ GenerateReadmeAction
    \/ GenerateReturnsStep

SpecPage == Init /\ [][NextPage]_vars

Next == InvokeStep \/ RepoStep \/ BranchStep \/ TreeStep \/ ContentStep

Spec == Init /\ [][Next]_vars

----------------------------------------------------------------------------
(* Properties of getRepoContent (specification Spec) *)

Done == pc = "done"

\* the try block returned (lines 75-78)
Returned == Done /\ ~caught

\* outcomes of a repository, branch or tree lookup on which the lookup fails:
\* a status that is not ok, or an exception of the fetch, of json() or of the
\* extraction from the body
LookupFailureKinds == {"reject", "notok", "badjson", "nullbody", "nochain", "notree"}

\* outcomes of a lookup with a body that lacks an expected field
MalformedKinds == {"badjson", "nullbody", "nofield", "nochain", "nosha", "notree"}

\* lookup k (1 repository, 2 branch, 3 tree) of this invocation failed
LookupFailed(k) == k <= Len(resps) /\ resps[k] \in LookupFailureKinds

SomeLookupFailed == \E k \in 1..3 : LookupFailed(k)

Elems(seq) == {seq[i] : i \in 1..Len(seq)}

\* C1 as stated: when a repository, branch or tree lookup returns a status
\* that is not ok, throws or yields a malformed body, the call ends as an
\* error (the promise is rejected) and the caller receives no result value.
C1_Original ==
    (Done /\ \E k \in 1..3 :
                k <= Len(resps) /\ resps[k] \in LookupFailureKinds \cup MalformedKinds)
        => (settled = "rejected" /\ result = Undefined)

\* C1 amended: when a repository, branch or tree lookup fails, the failure is
\* caught: the promise is fulfilled, never rejected, with the value
\* {tree: ['Error fetching repository structure.']} without packageJson, and
\* not with a tree resolved from the remote.
C1_Amended ==
    (Done /\ SomeLookupFailed)
        => /\ settled = "fulfilled"
           /\ result = Some([tree |-> <<ErrorPath>>, packageJson |-> Undefined])
           /\ caught

C1_Witness ==
    /\ Done
    /\ resps = <<"ok", "notok">>
    /\ result = Some(ErrorResult)

ContentFailureKinds == {"reject", "notok", "badjson", "nullbody", "nocontent"}

\* the three lookups returned ok with well-formed bodies
Resolved == Len(resps) >= 3 /\ SubSeq(resps, 1, 3) = <<"ok", "ok", "ok">>

\* the node whose url a content fetch of this invocation was issued for
FetchedNode == FindPackageJsonNode(treeData)[1]

\* the content fetch of this invocation has been answered
ContentFetched == Len(resps) = 4

\* C3 as stated: after a resolution that succeeded, a failed content fetch of
\* a package.json blob, of any kind, does not abort the call: the call returns
\* the resolved tree, with only the file omitted.
C3_Original ==
    (Done /\ Resolved /\ ContentFetched /\ FetchedNode.type = "blob"
          /\ resps[4] \in ContentFailureKinds)
        => /\ settled = "fulfilled"
           /\ result = Some([tree |-> fileTree, packageJson |-> Undefined])

KeptNodes == {i \in 1..Len(treeData) : KeepPath(treeData[i].path)}

ContentCallIssued == \E i \in 1..Len(calls) : calls[i].ep = "content"

\* C5 as stated: a content fetch is issued only for a blob node whose path is
\* exactly package.json, and at most one is issued.
C5_Original ==
    (Resolved /\ ContentCallIssued)
        => /\ FetchedNode.type = "blob"
           /\ FetchedNode.path = PackageJson
           /\ Cardinality({i \in 1..Len(calls) : calls[i].ep = "content"}) <= 1

\* C6 as stated: when the tree holds a package.json blob and its content fetch
\* returns ok with a body that carries a content string (the empty string
\* included), the result carries the decoded content.
C6_Original ==
    (Returned /\ Resolved /\ ContentFetched /\ resps[4] = "ok"
              /\ FetchedNode.type = "blob")
        => result[1].packageJson = Some(decodeBase64(pkgBody[1]))

\* C7: when the result carries packageJson, the tree response listed a node
\* with the path package.json and package.json is an entry of the result's
\* tree.
C7_FilesInTree ==
    (result # Undefined /\ IsDefined(result[1].packageJson))
        => /\ PackageJson \in Elems(result[1].tree)
           /\ \E i \in 1..Len(treeData) : treeData[i].path = PackageJson

C7_Witness ==
    /\ Done
    /\ IsDefined(result[1].packageJson)
    /\ Len(treeData) = 2
    /\ treeData[1].path # PackageJson

RECURSIVE IsSubseq(_, _)
IsSubseq(a, b) ==
    IF a = <<>> THEN TRUE
    ELSE IF b = <<>> THEN FALSE
    ELSE IF a[1] = b[1] THEN IsSubseq(Tail(a), Tail(b))
    ELSE IsSubseq(a, Tail(b))

UpstreamPaths == [i \in 1..Len(treeData) |-> treeData[i].path]

\* C8: two entries of a returned tree stand in the order in which the tree
\* response lists them; the tree returned by the try block is a subsequence
\* of the listed paths.
C8_OrderPreserved ==
    Done
        => /\ \A i, j \in 1..Len(result[1].tree) :
                  i < j => \E p, q \in 1..Len(treeData) :
                               /\ p < q
                               /\ treeData[p].path = result[1].tree[i]
                               /\ treeData[q].path = result[1].tree[j]
           /\ Returned => IsSubseq(result[1].tree, UpstreamPaths)

C8_Witness ==
    /\ Returned
    /\ Len(result[1].tree) = 2
    /\ result[1].tree[1] # result[1].tree[2]

CallOrder == <<"repo", "branch", "tree", "content">>

\* C9: the calls are issued in the order repository, branch, tree, content,
\* one at a time; a call is issued only after the lookup before it has
\* completed without failing; a call that returns from the try block has made
\* the three lookups, whatever the size of the tree.
C9_Sequential ==
    /\ Len(calls) <= 4
    /\ \A i \in 1..Len(calls) : calls[i].ep = CallOrder[i]
    /\ Len(resps) <= Len(calls) /\ Len(calls) <= Len(resps) + 1
    /\ \A i \in 2..Len(calls) :
           i - 1 <= Len(resps) /\ resps[i - 1] \notin LookupFailureKinds
    /\ Returned
           => /\ Len(calls) \in {3, 4}
              /\ <<calls[1].ep, calls[2].ep, calls[3].ep>> = <<"repo", "branch", "tree">>

C9_Witness ==
    /\ Returned
    /\ Len(calls) = 3
    /\ Len(treeData) = 2

----------------------------------------------------------------------------
(* Properties of handleGenerateReadme and the page (specification SpecPage) *)

\* C10 as stated: every result of handleGenerateReadme is {success: true,
\* data} or {success: false, error} with an error string that is not empty.
C10_Original ==
    IsDefined(lastAction)
        => LET res == lastAction[1].result
           IN  \/ res.success /\ IsDefined(res.data)
               \/ ~res.success /\ IsDefined(res.error) /\ res.error[1] # ""

\* a pending handleGenerateReadme call returned in this step
GenerateReturned == Cardinality(genInFlight') < Cardinality(genInFlight)

\* C10 amended: handleGenerateReadme returns a value for every outcome of the
\* flow: {success: true, data} with the flow's output when it returned, else
\* {success: false, error} with the thrown Error's message (which may be
\* empty) or the fixed text for a thrown value that is no Error.  The page
\* sets readme to the generated text and leaves error alone in the first
\* case; in the second it clears readme and sets error to a string that is
\* not empty (the returned one, or "Failed to generate README.").
C10_Amended ==
    [][GenerateReturned
        => LET la == lastAction'[1]
               res == la.result
           IN  /\ res.success = (la.outcome.kind = "return")
               /\ res.success
                    => /\ res.data = Some([readmeContent |-> la.outcome.text])
                       /\ res.error = Undefined
                       /\ readme' = la.outcome.text
                       /\ error' = error
               /\ ~res.success
                    => /\ res.data = Undefined
                       /\ IsDefined(res.error)
                       /\ la.outcome.kind = "throwError" => res.error[1] = la.outcome.text
                       /\ la.outcome.kind # "throwError" => res.error[1] # ""
                       /\ readme' = ""
                       /\ IsDefined(error') /\ error'[1] # ""
                       /\ res.error[1] # "" => error'[1] = res.error[1]]_vars

C10_Witness ==
    /\ IsDefined(lastAction)
    /\ ~lastAction[1].result.success
    /\ lastAction[1].result.error = Some("")
    /\ error = Some(GenerateFallbackMessage)
    /\ readme = ""

----------------------------------------------------------------------------
(* Totality of getRepoContent (specification Spec) *)

\* outcomes of response k on which a step inside the try block throws
ThrowKindsAt(k) ==
    IF k <= 3 THEN {"reject", "notok", "badjson", "nullbody", "nochain", "notree"}
    ELSE {"reject", "badjson", "nullbody"}

SomeStepThrew == \E k \in 1..Len(resps) : resps[k] \in ThrowKindsAt(k)

\* C12: the promise of getRepoContent is never rejected: a finished call is
\* fulfilled with a value, whatever the responses were; and when a step of the
\* try block threw, the value is exactly {tree: ['Error fetching repository
\* structure.']} without packageJson, so nothing resolved before the throw is
\* returned.
C12_Total ==
    /\ settled # "rejected"
    /\ Done => (settled = "fulfilled" /\ IsDefined(result))
    /\ SomeStepThrew
           => /\ Done
              /\ result = Some([tree |-> <<ErrorPath>>, packageJson |-> Undefined])

C12_Witness ==
    /\ Done
    /\ resps = <<"ok", "ok", "ok", "reject">>
    /\ Len(fileTree) = 2
    /\ result = Some(ErrorResult)

----------------------------------------------------------------------------
(* The owner/repository pair sent for generation (specification SpecPage) *)

\* the handleGenerateReadme calls issued in this step
NewCalls == genInFlight' \ genInFlight

\* C13 as stated: every call of handleGenerateReadme carries a repoName that
\* is in the current repos list and a userName equal to the username whose
\* fetch produced that list.
C13_Original ==
    [][\A input \in NewCalls :
           /\ input.repoName \in RepoNamesOf(repos)
           /\ reposOwner = Some(input.userName)]_vars

----------------------------------------------------------------------------
(* Idempotence of getRepoContent (specification SpecIdem) *)

\* C11: an invocation that follows one with the same userName and repoName,
\* against a remote that has not changed and answers each call as before,
\* returns the same tree sequence and the same packageJson content: nothing
\* of the first invocation is carried into the second.
C11_Idempotent ==
    (Done /\ IsDefined(prev))
        => /\ prev[1].userName = userName /\ prev[1].repoName = repoName
           /\ result[1].tree = prev[1].result[1].tree
           /\ result[1].packageJson = prev[1].result[1].packageJson
           /\ resps = prev[1].resps

C11_Witness ==
    /\ Returned
    /\ IsDefined(prev)
    /\ Len(result[1].tree) = 2
    /\ IsDefined(result[1].packageJson)
    /\ result = prev[1].result

====
